---------------------------- MODULE Spec2Model ----------------------------
(***************************************************************************)
(* A model of the aggregation, scoring and classification code of          *)
(* gitstory-2025, and of its API proxy:                                    *)
(*   src/services/githubService.ts     getProductivityTime,                *)
(*                                     calculateArchetype, fetchUserStory, *)
(*                                     the proxy (GET, getNextToken,       *)
(*                                     cache, cleanExpiredCache)           *)
(*   src/services/scoringAlgorithms.ts calculateLanguageScores,            *)
(*                                     getTopLanguages, calculateRepoScore,*)
(*                                     calculateArchetype,                 *)
(*                                     calculateProductivity               *)
(*                                                                         *)
(* The repository holds two implementations of the classifier and of the   *)
(* hour -> bucket mapping; both are modelled, each from its own source.    *)
(*                                                                         *)
(* Numbers.  Ratios such as prs / totalActivity > 0.20 are compared by     *)
(* cross-multiplication over the integers (100 * prs > 20 * totalActivity).*)
(* The quotients the code forms are correctly rounded IEEE doubles of      *)
(* small integers, and the nearest quotient that differs from a threshold  *)
(* differs by more than 1e-6, so the double comparison and the exact one   *)
(* agree on every input modelled here.                                     *)
(***************************************************************************)
EXTENDS Integers, Sequences, FiniteSets, Bags, TLC

VARIABLES
    \* ---- classifier (calculateArchetype, both implementations) ----
    breakdown,        \* ContributionBreakdown {commits, prs, issues, reviews}
    community,        \* CommunityStats {followers, totalStars}
    totalCommits,     \* total commits of the year
    productivity,     \* ProductivityData {timeOfDay, peakHour}
    weekdayStats,     \* 7-slot histogram, index 1 = Sunday .. 7 = Saturday
    archetype,        \* the label returned ("" before the call)
    impl,             \* which implementation produced the result
    \* ---- productivity (fetchUserStory B and D, calculateProductivity) ----
    hourKeys,         \* the keys of hourCounts in the order they were created
    hourCounts,       \* hourCounts[h], 0 for an hour that is no key
    \* ---- contribution aggregation (fetchUserStory A) ----
    contribData,      \* contribData.contributions as the fetch returned it
    westOfUTC,        \* whether the local time zone is behind UTC
    yearData,         \* the array being sorted and scanned
    dayIndex,         \* position of the for-of loop in yearData
    currentStreak,
    maxStreak,
    velocityData,
    busiestDay,
    pc,               \* where the processing stands
    \* ---- repositories (calculateLanguageScores, getTopLanguages,
    \*      fetchUserStory C) ----
    repos,            \* the repository collection, in input order
    langMap,          \* the language map, as its entries in insertion order
    topN,             \* the topN argument of getTopLanguages
    topLanguages,     \* the selection
    now,              \* new Date() at the time of the call
    totalStars,
    bestRepo,         \* the best repository so far: its position in repos, 0 for null
    bestScore,
    topRepo,          \* the report's top repository
    \* ---- repository scorers (calculateRepoScore, module and embedded) ----
    record,           \* the repository record handed to the scorer
    clock,            \* the current time, in days since 2025-01-01
    calls,            \* the calls made so far: function, record, time, score
    \* ---- fetchUserStory, the fetches (lines 83-148) and the outcome ----
    username,         \* the argument
    step,             \* the next fetch: 0 before the call, 1..7, 8 processing, 9 returned
    responses,        \* the responses received so far, in the order of the fetches
    inputs,           \* user, repos, contribData, events, prCount, issueCount, reviewCount
    report,           \* what the returned report was computed from
    outcome,          \* "pending", "report" (the promise resolved) or "error" (rejected)
    thrown,           \* the message of the error thrown, "" for none
    \* ---- the proxy (GET, getNextToken, cache, cleanExpiredCache) ----
    tokenCount,       \* GITHUB_TOKENS.length
    tokenIndex,
    cache,            \* the cache: [cache key -> entry], NoEntry for a missing key
    dateNow,          \* Date.now(), in units of 150 s
    pending,          \* the GET requests waiting for their upstream fetch (a bag)
    requestCount,     \* the GET requests received so far
    lastResponse,     \* the response returned last
    taken             \* the tokens getNextToken has returned and the headers built
                      \* from them, in order

archVars == <<breakdown, community, archetype>>
prodVars == <<hourKeys, hourCounts>>
aggVars == <<contribData, westOfUTC, yearData, dayIndex, currentStreak, maxStreak,
             velocityData, busiestDay, pc>>

langVars == <<repos, langMap, topN, topLanguages, now, totalStars, bestRepo, bestScore,
              topRepo>>

scoreVars == <<record, clock, calls>>

\* The variables of the aggregation, language and classification sections.
coreVars == <<archVars, totalCommits, weekdayStats, productivity, impl, prodVars, aggVars,
              langVars>>

\* The variables of the scorer, fetch and proxy sections.
fetchVars == <<username, step, responses, inputs, report, outcome, thrown>>
proxyVars == <<tokenCount, tokenIndex, cache, dateNow, pending, requestCount,
               lastResponse, taken>>

extVars == <<scoreVars, fetchVars, proxyVars>>

vars == <<coreVars, extVars>>

---------------------------------------------------------------------------
(* Helpers *)

Max(a, b) == IF a >= b THEN a ELSE b
Min(a, b) == IF a <= b THEN a ELSE b

RECURSIVE SumSeq(_)
SumSeq(s) == IF s = <<>> THEN 0 ELSE Head(s) + SumSeq(Tail(s))

\* num / den > pct / 100, with the ratio defined as 0 when den is 0
\* (the code's `den > 0 ? num / den : 0`).
RatioAbove(num, den, pct) ==
    IF den > 0 THEN 100 * num > pct * den ELSE 0 > pct

---------------------------------------------------------------------------
(* githubService.ts: getProductivityTime *)

getProductivityTime(hour) ==
    IF hour >= 5 /\ hour < 12 THEN "Morning"
    ELSE IF hour >= 12 /\ hour < 17 THEN "Afternoon"
    ELSE IF hour >= 17 /\ hour < 22 THEN "Evening"
    ELSE "Late Night"

---------------------------------------------------------------------------
(* githubService.ts: calculateArchetype *)

\* Mutant: the final `return "The Tinkerer"` is missing, so an input that
\* satisfies no rule falls off the end of the function (undefined).
ServiceArchetypeNoDefault(stats, comm, total, prod, wstats) ==
    LET totalActivity == stats.commits + stats.prs + stats.issues + stats.reviews
        weekendCommits == wstats[1] + wstats[7]
    IN  IF RatioAbove(stats.prs, totalActivity, 20) /\ stats.prs > 20
            THEN "The Pull Request Pro"
        ELSE IF RatioAbove(stats.reviews, totalActivity, 10) /\ stats.reviews > 10
            THEN "The Reviewer"
        ELSE IF RatioAbove(weekendCommits, total, 35) /\ total > 50
            THEN "The Weekend Warrior"
        ELSE IF prod.timeOfDay = "Late Night" /\ total > 50
            THEN "The Night Owl"
        ELSE IF prod.timeOfDay = "Morning" /\ total > 50
            THEN "The Early Bird"
        ELSE IF total > 1200 THEN "The Grid Painter"
        ELSE IF total > 400 THEN "The Consistent"
        ELSE IF RatioAbove(stats.issues, totalActivity, 15) THEN "The Planner"
        ELSE IF comm.followers > 500 \/ comm.totalStars > 1000
            THEN "The Community Star"
        ELSE "undefined"

ServiceArchetype(stats, comm, total, prod, wstats) ==
    LET totalActivity == stats.commits + stats.prs + stats.issues + stats.reviews
        weekendCommits == wstats[1] + wstats[7]
    IN  IF RatioAbove(stats.prs, totalActivity, 20) /\ stats.prs > 20
            THEN "The Pull Request Pro"
        ELSE IF RatioAbove(stats.reviews, totalActivity, 10) /\ stats.reviews > 10
            THEN "The Reviewer"
        ELSE IF RatioAbove(weekendCommits, total, 35) /\ total > 50
            THEN "The Weekend Warrior"
        ELSE IF prod.timeOfDay = "Late Night" /\ total > 50
            THEN "The Night Owl"
        ELSE IF prod.timeOfDay = "Morning" /\ total > 50
            THEN "The Early Bird"
        ELSE IF total > 1200 THEN "The Grid Painter"
        ELSE IF total > 400 THEN "The Consistent"
        ELSE IF RatioAbove(stats.issues, totalActivity, 15) THEN "The Planner"
        ELSE IF comm.followers > 500 \/ comm.totalStars > 1000
            THEN "The Community Star"
        ELSE "The Tinkerer"

---------------------------------------------------------------------------
(* scoringAlgorithms.ts: calculateArchetype *)

ModuleArchetype(stats, comm, total, prod, wstats) ==
    LET totalActivity == stats.commits + stats.prs + stats.issues + stats.reviews
        weekendCommits == wstats[1] + wstats[7]
        totalWeekCommits == SumSeq(wstats)
    IN  IF RatioAbove(stats.prs, totalActivity, 20) THEN "The Pull Request Pro"
        ELSE IF RatioAbove(stats.reviews, totalActivity, 10) THEN "The Reviewer"
        ELSE IF prod.peakHour >= 22 \/ prod.peakHour <= 4
            THEN "The Night Owl"
        ELSE IF prod.peakHour >= 5 /\ prod.peakHour <= 11
            THEN "The Early Bird"
        ELSE IF RatioAbove(weekendCommits, totalWeekCommits, 35)
            THEN "The Weekend Warrior"
        ELSE IF total >= 1200 THEN "The Grid Painter"
        ELSE IF total >= 400 THEN "The Consistent"
        ELSE IF RatioAbove(stats.issues, totalActivity, 15) THEN "The Planner"
        ELSE IF comm.followers >= 500 \/ comm.totalStars >= 1000
            THEN "The Community Star"
        ELSE "The Tinkerer"

---------------------------------------------------------------------------
(* Values of the variables a specification does not use. *)

Hours == 0..23

ProdIdle ==
    /\ hourKeys = <<>>
    /\ hourCounts = [h \in Hours |-> 0]

PendingRepo ==
    [ name |-> "", description |-> "", stars |-> 0, language |-> "", topics |-> 0,
      url |-> "" ]

LangIdle ==
    /\ repos = <<>>
    /\ langMap = <<>>
    /\ topN = 0
    /\ topLanguages = <<>>
    /\ now = 0
    /\ totalStars = 0
    /\ bestRepo = 0
    /\ bestScore = 0
    /\ topRepo = PendingRepo

ArchIdle ==
    /\ breakdown = [commits |-> 0, prs |-> 0, issues |-> 0, reviews |-> 0]
    /\ community = [followers |-> 0, totalStars |-> 0]
    /\ archetype = ""

ScoreIdle ==
    /\ record = PendingRepo
    /\ clock = 0
    /\ calls = <<>>

\* The seven inputs of fetchUserStory, in the order they are fetched.
Fetches ==
    <<"user", "repos", "contributions", "events", "prSearch", "issueSearch",
      "reviewSearch">>

InputNames == { Fetches[k] : k \in 1..Len(Fetches) }

NothingFetched == [f \in InputNames |-> "unset"]

FetchIdle ==
    /\ username = ""
    /\ step = 0
    /\ responses = <<>>
    /\ inputs = NothingFetched
    /\ report = NothingFetched
    /\ outcome = "pending"
    /\ thrown = ""

\* The endpoints requested through the proxy, and the two kinds of cache key
\* of line 414.
Endpoints == {"/users/a", "/users/a/repos"}

CacheKeys == Endpoints \X {"public", "auth"}

NoData == [endpoint |-> "", auth |-> "", authorization |-> "", status |-> 0]

\* cache.get of a key that is not in the map.
NoEntry == [present |-> FALSE, data |-> NoData, status |-> 0, timestamp |-> 0]

NoResponse ==
    [ endpoint |-> "", auth |-> "", sent |-> "", status |-> 0, xcache |-> "",
      data |-> NoData, age |-> 0 ]

ProxyIdle ==
    /\ tokenCount = 0
    /\ tokenIndex = 0
    /\ cache = [key \in CacheKeys |-> NoEntry]
    /\ dateNow = 0
    /\ pending = EmptyBag
    /\ requestCount = 0
    /\ lastResponse = NoResponse
    /\ taken = <<>>

ExtIdle == ScoreIdle /\ FetchIdle /\ ProxyIdle

AggIdle ==
    /\ contribData = <<>>
    /\ westOfUTC = FALSE
    /\ yearData = <<>>
    /\ dayIndex = 1
    /\ currentStreak = 0
    /\ maxStreak = 0
    /\ velocityData = <<>>
    /\ busiestDay = ""
    /\ pc = "idle"

---------------------------------------------------------------------------
(* Inputs of the classifier: values on both sides of every threshold the   *)
(* two implementations compare against.                                    *)

TotalCommitsVals == {0, 50, 51, 60, 400, 401, 1200, 1500}
PrsVals == {0, 5, 20, 21, 60}
ReviewsVals == {0, 10, 11, 40}
IssuesVals == {0, 30}
CommunityVals ==
    { [followers |-> 0, totalStars |-> 0],
      [followers |-> 500, totalStars |-> 1000],
      [followers |-> 501, totalStars |-> 0],
      [followers |-> 0, totalStars |-> 1001] }
PeakHourVals == {0, 4, 5, 11, 12, 14, 21, 22, 23}

\* Weekend commit totals around 35 % of `total`.
WeekendVals(total) ==
    {0, (35 * total) \div 100, Min(total, (35 * total) \div 100 + 1), total}

\* A histogram with `we` commits on the weekend (split over Sunday and
\* Saturday) and the rest on Monday.
Histogram(total, we) ==
    <<we \div 2, total - we, 0, 0, 0, 0, we - (we \div 2)>>

ArchInit ==
    /\ totalCommits \in TotalCommitsVals
    /\ \E c \in {10, totalCommits}, p \in PrsVals, i \in IssuesVals, r \in ReviewsVals :
          breakdown = [commits |-> c, prs |-> p, issues |-> i, reviews |-> r]
    /\ community \in CommunityVals
    /\ \E h \in PeakHourVals :
          productivity = [timeOfDay |-> getProductivityTime(h), peakHour |-> h]
    /\ \E we \in WeekendVals(totalCommits) :
          weekdayStats = Histogram(totalCommits, we)
    /\ archetype = ""
    /\ impl = "none"
    /\ ProdIdle
    /\ AggIdle
    /\ LangIdle
    /\ ExtIdle

\* fetchUserStory line 334 / any caller of the service's classifier.
ClassifyService ==
    /\ impl = "none"
    /\ archetype' = ServiceArchetype(breakdown, community, totalCommits,
                                     productivity, weekdayStats)
    /\ impl' = "service"
    /\ UNCHANGED <<breakdown, community, totalCommits, productivity, weekdayStats,
                   prodVars, aggVars, langVars, extVars>>

\* A call of the exported classifier of scoringAlgorithms.ts.
ClassifyModule ==
    /\ impl = "none"
    /\ archetype' = ModuleArchetype(breakdown, community, totalCommits,
                                    productivity, weekdayStats)
    /\ impl' = "module"
    /\ UNCHANGED <<breakdown, community, totalCommits, productivity, weekdayStats,
                   prodVars, aggVars, langVars, extVars>>

ArchNext == ClassifyService \/ ClassifyModule

SpecArchetype == ArchInit /\ [][ArchNext]_vars

---------------------------------------------------------------------------
(* The decision list of the specification (section 4.5), stated over the    *)
(* classifier's inputs: ten rules in a fixed order.                        *)

TotalActivity ==
    breakdown.commits + breakdown.prs + breakdown.issues + breakdown.reviews

\* x / y > n / d, the ratio being 0 when y = 0.
RatioExceeds(x, y, n, d) == y # 0 /\ x * d > n * y

LateNightHour(h) == h >= 22 \/ h < 5
MorningHour(h) == 5 <= h /\ h < 12

RuleHolds(i) ==
    CASE i = 1 -> RatioExceeds(breakdown.prs, TotalActivity, 1, 5) /\ breakdown.prs > 20
      [] i = 2 -> RatioExceeds(breakdown.reviews, TotalActivity, 1, 10)
                    /\ breakdown.reviews > 10
      [] i = 3 -> RatioExceeds(weekdayStats[1] + weekdayStats[7], totalCommits, 7, 20)
                    /\ totalCommits > 50
      [] i = 4 -> LateNightHour(productivity.peakHour) /\ totalCommits > 50
      [] i = 5 -> MorningHour(productivity.peakHour) /\ totalCommits > 50
      [] i = 6 -> totalCommits > 1200
      [] i = 7 -> totalCommits > 400
      [] i = 8 -> RatioExceeds(breakdown.issues, TotalActivity, 3, 20)
      [] i = 9 -> community.followers > 500 \/ community.totalStars > 1000
      [] OTHER -> TRUE

RuleLabel ==
    << "The Pull Request Pro", "The Reviewer", "The Weekend Warrior",
       "The Night Owl", "The Early Bird", "The Grid Painter", "The Consistent",
       "The Planner", "The Community Star", "The Tinkerer" >>

ArchetypeLabels == { RuleLabel[i] : i \in 1..10 }

FirstRule == CHOOSE i \in 1..10 : RuleHolds(i) /\ \A j \in 1..(i - 1) : ~RuleHolds(j)

Classified == impl # "none"

\* C1: the classifier returns the label of the first rule, in the order
\* Pull Request Pro, Reviewer, Weekend Warrior, Night Owl, Early Bird, Grid
\* Painter, Consistent, Planner, Community Star, Tinkerer, whose predicate
\* holds; so Weekend Warrior wins over Night Owl and Early Bird, and a later
\* rule never wins over an earlier satisfied one.
C1_FirstRuleWins == Classified => archetype = RuleLabel[FirstRule]

\* The same statement for the classifier of githubService.ts alone.
ServiceFirstRuleWins == impl = "service" => archetype = RuleLabel[FirstRule]

\* C2: the classifier is total: on every input, with totalActivity = 0 and
\* totalCommits = 0 included, it returns one label of the closed ten-value
\* set.
C2_TotalClassifier == Classified => archetype \in ArchetypeLabels

\* C2 witness: with no activity and no commits at all (every ratio is 0) the
\* classifier has returned the default label.
C2_DefaultReached ==
    /\ Classified
    /\ TotalActivity = 0
    /\ totalCommits = 0
    /\ archetype = "The Tinkerer"

\* C3: the ratio rules are guarded by absolute counts: never Pull Request
\* Pro with prs <= 20, never Reviewer with reviews <= 10, never Weekend
\* Warrior, Night Owl or Early Bird with totalCommits <= 50; and breakdown
\* {commits 10, prs 5, issues 0, reviews 0} with totalCommits <= 50,
\* followers <= 500 and totalStars <= 1000 is a Tinkerer.
C3_CountGuards ==
    Classified =>
        /\ breakdown.prs <= 20 => archetype # "The Pull Request Pro"
        /\ breakdown.reviews <= 10 => archetype # "The Reviewer"
        /\ totalCommits <= 50 =>
              archetype \notin {"The Weekend Warrior", "The Night Owl", "The Early Bird"}
        /\ ( /\ breakdown = [commits |-> 10, prs |-> 5, issues |-> 0, reviews |-> 0]
             /\ totalCommits <= 50
             /\ community.followers <= 500
             /\ community.totalStars <= 1000 ) => archetype = "The Tinkerer"

\* The same statement for the classifier of githubService.ts alone.
ServiceCountGuards == impl = "service" => C3_CountGuards

---------------------------------------------------------------------------
(* JavaScript values used by the productivity code. *)

\* String(h) for an hour: the property key of hourCounts[h], as its decimal
\* digits.
HourKey(h) == IF h < 10 THEN <<h>> ELSE <<h \div 10, h % 10>>

\* parseInt(key) of a string of decimal digits.
RECURSIVE ParseInt(_)
ParseInt(str) ==
    IF str = <<>> THEN 0
    ELSE 10 * ParseInt(SubSeq(str, 1, Len(str) - 1)) + str[Len(str)]

\* Mutant: the entries in the order the keys were created (the order of a Map,
\* or of an object whose keys are not integer indices).
ObjectEntriesInsertionOrder(keys, counts) ==
    [i \in 1..Len(keys) |-> <<HourKey(keys[i]), counts[keys[i]]>>]

\* Object.entries(hourCounts): the keys of hourCounts are integer indices, which
\* an object enumerates in ascending numeric order whatever the order they were
\* created in.
ObjectEntries(keys, counts) ==
    LET present == { keys[i] : i \in 1..Len(keys) }
        \* the k-th smallest hour that is a key
        kth[k \in 1..Cardinality(present)] ==
            CHOOSE h \in present : Cardinality({g \in present : g < h}) = k - 1
    IN  [k \in 1..Cardinality(present) |-> <<HourKey(kth[k]), counts[kth[k]]>>]

\* Mutant: an element is put before the elements of equal weight (an unstable
\* sort, which reverses ties).
InsertBeforeEqual(order, i, w) ==
    LET before == Cardinality({k \in 1..Len(order) : w[order[k]] > w[i]})
    IN  SubSeq(order, 1, before) \o <<i>> \o SubSeq(order, before + 1, Len(order))

\* Array.prototype.sort((a, b) => b - a) on the weights w, as the order it puts
\* the indices 1..Len(w) in: descending weight, equal weights keeping their
\* order (the sort is stable).
InsertStable(order, i, w) ==
    LET before == Cardinality({k \in 1..Len(order) : w[order[k]] >= w[i]})
    IN  SubSeq(order, 1, before) \o <<i>> \o SubSeq(order, before + 1, Len(order))

RECURSIVE SortDescOrder(_, _)
SortDescOrder(w, n) ==
    IF n = 0 THEN <<>> ELSE InsertStable(SortDescOrder(w, n - 1), n, w)

SortDesc(s, w) ==
    LET order == SortDescOrder(w, Len(s)) IN [k \in 1..Len(s) |-> s[order[k]]]

---------------------------------------------------------------------------
(* githubService.ts, fetchUserStory D: the peak hour of hourCounts *)

ServiceProductivity(keys, counts) ==
    LET entries == ObjectEntries(keys, counts)
        sortedHours == SortDesc(entries, [k \in 1..Len(entries) |-> entries[k][2]])
        peak == IF Len(sortedHours) > 0 THEN ParseInt(sortedHours[1][1]) ELSE 14
    IN  [timeOfDay |-> getProductivityTime(peak), peakHour |-> peak]

---------------------------------------------------------------------------
(* scoringAlgorithms.ts: calculateProductivity *)

\* The loop over Object.entries(hourCounts): the state <<peakHour, maxCount>>
\* after the first n entries.
RECURSIVE PeakScan(_, _)
PeakScan(entries, n) ==
    IF n = 0 THEN <<14, 0>>
    ELSE LET prev == PeakScan(entries, n - 1)
             hour == entries[n][1]
             count == entries[n][2]
         IN  IF count > prev[2] THEN <<ParseInt(hour), count>> ELSE prev

ModuleTimeOfDay(hour) ==
    IF hour >= 5 /\ hour < 12 THEN "Morning"
    ELSE IF hour >= 12 /\ hour < 17 THEN "Afternoon"
    ELSE IF hour >= 17 /\ hour < 21 THEN "Evening"
    ELSE "Late Night"

calculateProductivity(keys, counts) ==
    LET entries == ObjectEntries(keys, counts)
        peak == PeakScan(entries, Len(entries))[1]
    IN  [timeOfDay |-> ModuleTimeOfDay(peak), peakHour |-> peak]

---------------------------------------------------------------------------
(* The productivity analysis: events are bucketed by hour one at a time     *)
(* (fetchUserStory B), then one of the two implementations derives the     *)
(* profile.                                                                *)

MaxEvents == 3

NoProductivity == [timeOfDay |-> "", peakHour |-> -1]

NumEvents == SumSeq([i \in 1..Len(hourKeys) |-> hourCounts[hourKeys[i]]])

ProdInit ==
    /\ ProdIdle
    /\ productivity = NoProductivity
    /\ impl = "none"
    /\ ArchIdle
    /\ totalCommits = 0
    /\ weekdayStats = <<0, 0, 0, 0, 0, 0, 0>>
    /\ AggIdle
    /\ LangIdle
    /\ ExtIdle

\* events.forEach: one event whose created_at falls in local hour h.
RecordEvent(h) ==
    /\ impl = "none"
    /\ NumEvents < MaxEvents
    /\ hourCounts' = [hourCounts EXCEPT ![h] = @ + 1]
    /\ hourKeys' = IF hourCounts[h] = 0 THEN Append(hourKeys, h) ELSE hourKeys
    /\ UNCHANGED <<productivity, impl, archVars, totalCommits, weekdayStats, aggVars,
                   langVars, extVars>>

DeriveService ==
    /\ impl = "none"
    /\ productivity' = ServiceProductivity(hourKeys, hourCounts)
    /\ impl' = "service"
    /\ UNCHANGED <<prodVars, archVars, totalCommits, weekdayStats, aggVars, langVars, extVars>>

DeriveModule ==
    /\ impl = "none"
    /\ productivity' = calculateProductivity(hourKeys, hourCounts)
    /\ impl' = "module"
    /\ UNCHANGED <<prodVars, archVars, totalCommits, weekdayStats, aggVars, langVars, extVars>>

ProdNext ==
    \/ \E h \in Hours : RecordEvent(h)
    \/ DeriveService
    \/ DeriveModule

SpecProductivity == ProdInit /\ [][ProdNext]_vars

---------------------------------------------------------------------------
(* The productivity claims *)

Derived == impl # "none"

\* The bucket of section 4.4: Morning [5,12), Afternoon [12,17), Evening
\* [17,22), Late Night otherwise.
BucketOf(h) ==
    CASE 5 <= h /\ h < 12 -> "Morning"
      [] 12 <= h /\ h < 17 -> "Afternoon"
      [] 17 <= h /\ h < 22 -> "Evening"
      [] OTHER -> "Late Night"

\* C4: whichever function maps the peak hour to a bucket, the bucket is
\* Morning iff 5 <= h < 12, Afternoon iff 12 <= h < 17, Evening iff
\* 17 <= h < 22 and Late Night iff h >= 22 or h < 5; hour 21 is Evening.
C4_BucketMapping ==
    Derived =>
        /\ productivity.peakHour \in Hours
        /\ productivity.timeOfDay = BucketOf(productivity.peakHour)

\* The same statement for getProductivityTime alone.
ServiceBucketMapping == impl = "service" => C4_BucketMapping

\* The maximum count in the map.
PeakCount ==
    CHOOSE m \in 0..MaxEvents :
        /\ \A h \in Hours : hourCounts[h] <= m
        /\ \E g \in Hours : hourCounts[g] = m

---------------------------------------------------------------------------
(* githubService.ts, fetchUserStory A: velocity, streaks, weekday histogram *)
(*                                                                         *)
(* A date is a day of January 2025, 1..NumDates, standing for the string   *)
(* "2025-01-dd" of the contributions API.  new Date("2025-01-dd") is        *)
(* midnight UTC of that day; getDay() and toLocaleDateString() read it in  *)
(* local time, which is the day before in a time zone behind UTC.          *)

MaxDays == 3
NumDates == 5
MaxDayCount == 2

Dates == 1..NumDates

\* new Date(date).getTime(), in days since 2024-12-31T00:00Z.
GetTime(date) == date

\* The local calendar day of new Date(date): 0 stands for 31 December 2024.
LocalDay(date, west) == IF west THEN date - 1 ELSE date

\* dateObj.getDay(): 0 = Sunday .. 6 = Saturday; 1 January 2025 is a Wednesday.
GetDay(date, west) == (LocalDay(date, west) + 2) % 7

\* dateObj.toLocaleDateString('en-US', {month: 'short', day: 'numeric'}).
DateLabel(date, west) ==
    IF LocalDay(date, west) >= 1 THEN <<"Jan", LocalDay(date, west)>> ELSE <<"Dec", 31>>

\* Mutant: the array is processed in the order received.
SortByDateOmitted(data) == data

\* yearData.sort((a, b) => new Date(a.date).getTime() - new Date(b.date).getTime())
SortByDate(data) ==
    SortDesc(data, [k \in 1..Len(data) |-> 0 - GetTime(data[k].date)])

\* Math.max(...arr) of a non-empty array of numbers.
RECURSIVE MathMax(_)
MathMax(arr) ==
    IF Len(arr) = 1 THEN arr[1] ELSE Max(arr[1], MathMax(Tail(arr)))

\* Mutant: the last index holding v.
LastIndexOf(arr, v) ==
    IF \E i \in 1..Len(arr) : arr[i] = v
    THEN (CHOOSE i \in 1..Len(arr) : arr[i] = v /\ \A j \in (i + 1)..Len(arr) : arr[j] # v) - 1
    ELSE -1

\* arr.indexOf(v): the first index (from 0) holding v, -1 when there is none.
RECURSIVE IndexOfFrom(_, _, _)
IndexOfFrom(arr, v, i) ==
    IF i > Len(arr) THEN -1
    ELSE IF arr[i] = v THEN i - 1
    ELSE IndexOfFrom(arr, v, i + 1)

IndexOf(arr, v) == IndexOfFrom(arr, v, 1)

days == <<"Sundays", "Mondays", "Tuesdays", "Wednesdays", "Thursdays", "Fridays",
          "Saturdays">>

\* Inputs: every sequence of at most MaxDays entries with distinct dates, in
\* every order, and the documented examples of section 8.
DayEntries == [date : Dates, count : 0..MaxDayCount]

DistinctDates(data) ==
    \A i, j \in 1..Len(data) : i # j => data[i].date # data[j].date

BoundedYearData ==
    UNION { { data \in [1..n -> DayEntries] : DistinctDates(data) } : n \in 0..MaxDays }

\* Counts [1,0,1,1,0,1,1,1] on eight consecutive days, in date order and
\* reversed; four days without a contribution; 5 contributions on Sunday the
\* 5th and on Saturday the 4th.
ExampleCounts == <<1, 0, 1, 1, 0, 1, 1, 1>>
ExampleYearData ==
    { [i \in 1..8 |-> [date |-> i, count |-> ExampleCounts[i]]],
      [i \in 1..8 |-> [date |-> 9 - i, count |-> ExampleCounts[9 - i]]],
      [i \in 1..4 |-> [date |-> i, count |-> 0]],
      <<[date |-> 5, count |-> 5], [date |-> 4, count |-> 5]>> }

AggInit ==
    /\ contribData \in BoundedYearData \cup ExampleYearData
    /\ westOfUTC \in BOOLEAN
    /\ yearData = contribData
    /\ dayIndex = 1
    /\ totalCommits = 0
    /\ currentStreak = 0
    /\ maxStreak = 0
    /\ weekdayStats = <<0, 0, 0, 0, 0, 0, 0>>
    /\ velocityData = <<>>
    /\ busiestDay = ""
    /\ pc = "fetched"
    /\ productivity = NoProductivity
    /\ impl = "none"
    /\ ArchIdle
    /\ ProdIdle
    /\ LangIdle
    /\ ExtIdle

\* Line 160: the in-place sort of yearData.
SortYearData ==
    /\ pc = "fetched"
    /\ yearData' = SortByDate(yearData)
    /\ pc' = "loop"
    /\ UNCHANGED <<contribData, westOfUTC, dayIndex, totalCommits, currentStreak,
                   maxStreak, weekdayStats, velocityData, busiestDay,
                   productivity, impl, archVars, prodVars, langVars, extVars>>

\* Lines 162-180: one iteration of `for (const day of yearData)`.
ProcessDay ==
    /\ pc = "loop"
    /\ dayIndex <= Len(yearData)
    /\ LET day == yearData[dayIndex]
           count == day.count
           slot == GetDay(day.date, westOfUTC) + 1
       IN  /\ totalCommits' = totalCommits + count
           /\ velocityData' = Append(velocityData,
                  [date |-> DateLabel(day.date, westOfUTC), commits |-> count])
           /\ weekdayStats' = IF count > 0
                               THEN [weekdayStats EXCEPT ![slot] = @ + count]
                               ELSE weekdayStats
           /\ currentStreak' = IF count > 0 THEN currentStreak + 1 ELSE 0
           /\ maxStreak' = IF count > 0 /\ currentStreak + 1 > maxStreak
                            THEN currentStreak + 1
                            ELSE maxStreak
    /\ dayIndex' = dayIndex + 1
    /\ UNCHANGED <<contribData, westOfUTC, yearData, busiestDay, pc,
                   productivity, impl, archVars, prodVars, langVars, extVars>>

\* Lines 182-184: the busiest weekday, once the loop has ended.
PickBusiestDay ==
    /\ pc = "loop"
    /\ dayIndex > Len(yearData)
    /\ LET maxDayIndex == IndexOf(weekdayStats, MathMax(weekdayStats))
       IN  busiestDay' = days[maxDayIndex + 1]
    /\ pc' = "done"
    /\ UNCHANGED <<contribData, westOfUTC, yearData, dayIndex, totalCommits,
                   currentStreak, maxStreak, weekdayStats, velocityData,
                   productivity, impl, archVars, prodVars, langVars, extVars>>

AggNext == SortYearData \/ ProcessDay \/ PickBusiestDay

SpecAggregate == AggInit /\ [][AggNext]_vars

---------------------------------------------------------------------------
(* The aggregation claims *)

Aggregated == pc = "done"

Entries == { contribData[i] : i \in 1..Len(contribData) }

\* The entries dated from lo to hi all have a positive count.
ActiveRun(lo, hi) ==
    \A e \in Entries : (lo <= e.date /\ e.date <= hi) => e.count > 0

RunLength(lo, hi) == Cardinality({ e \in Entries : lo <= e.date /\ e.date <= hi })

\* The length of the longest run of entries, adjacent in date order, that all
\* have a positive count.
LongestRun ==
    LET ds == { e.date : e \in Entries }
        active == { <<lo, hi>> \in ds \X ds : lo <= hi /\ ActiveRun(lo, hi) }
        lengths == { RunLength(r[1], r[2]) : r \in active } \cup {0}
    IN  CHOOSE n \in lengths : \A m \in lengths : m <= n

\* C6: for entries with distinct dates supplied in any order, longestStreak
\* is the length of the longest run of entries, adjacent in ascending date
\* order, that all have count > 0 (0 when there is none).
C6_LongestStreak == Aggregated => maxStreak = LongestRun

\* C6 witness: the input arrived out of date order and the streak found is
\* the run of three active days of the documented example.
C6_UnsortedExample ==
    /\ Aggregated
    /\ Len(contribData) = 8
    /\ contribData[1].date > contribData[2].date
    /\ maxStreak = 3

\* Each slot is the sum of the positive counts of the days on that weekday.
SlotSum(wd) ==
    LET onDay == { e \in Entries : GetDay(e.date, westOfUTC) = wd /\ e.count > 0 }
        RECURSIVE Total(_)
        Total(es) == IF es = {} THEN 0
                     ELSE LET e == CHOOSE x \in es : TRUE
                          IN  e.count + Total(es \ {e})
    IN  Total(onDay)

\* C7: the histogram holds, per weekday, the sum of the positive counts of
\* the days on it, and the busiest weekday is the lowest index whose slot
\* equals the maximum slot (Sunday before any later day).
C7_BusiestDay ==
    Aggregated =>
        /\ \A wd \in 0..6 : weekdayStats[wd + 1] = SlotSum(wd)
        /\ \E i \in 1..7 :
              /\ busiestDay = days[i]
              /\ \A j \in 1..7 : weekdayStats[j] <= weekdayStats[i]
              /\ \A j \in 1..(i - 1) : weekdayStats[j] < weekdayStats[i]

\* C7 witness: Sunday and Saturday tie at 5 and Sunday is the busiest day.
C7_SundaySaturdayTie ==
    /\ Aggregated
    /\ weekdayStats = <<5, 0, 0, 0, 0, 0, 5>>
    /\ busiestDay = "Sundays"

---------------------------------------------------------------------------
(* Repository records.                                                     *)
(*                                                                         *)
(* A timestamp is a number of days since 2025-01-01T00:00Z (negative       *)
(* before 2025, 365 and more after it).  `description` holds the length of *)
(* the trimmed description (0 for none), `topics` the number of topics,    *)
(* `language` the primary language ("" for none).                          *)

year2025 == 0

\* The target year 2025 has 365 days.
WithinTargetYear(t) == year2025 <= t /\ t < year2025 + 365

Repo(lang, isFork, pushed, stars, forks, isArchived) ==
    [ name |-> "", html_url |-> "", language |-> lang, fork |-> isFork, pushed_at |-> pushed,
      stargazers_count |-> stars, forks_count |-> forks, description |-> 0,
      topics |-> 0, watchers_count |-> 0, archived |-> isArchived ]

\* The collection <<kinds[1], .., kinds[n]>> with each repository named by its
\* position (a user's repositories have distinct names).
RepoNames == <<"repo-1", "repo-2", "repo-3", "repo-4", "repo-5", "repo-6">>
RepoUrls == <<"https://github.com/u/repo-1", "https://github.com/u/repo-2",
              "https://github.com/u/repo-3", "https://github.com/u/repo-4",
              "https://github.com/u/repo-5", "https://github.com/u/repo-6">>

Named(kinds) ==
    [i \in 1..Len(kinds) |->
        [kinds[i] EXCEPT !.name = RepoNames[i], !.html_url = RepoUrls[i]]]

---------------------------------------------------------------------------
(* scoringAlgorithms.ts: calculateLanguageScores, getTopLanguages           *)
(*                                                                         *)
(* Weights are held in halves (weight 3 stands for 1.5), so that the       *)
(* diversity bonus of 0.5 per repository is an integer.                    *)

baseWeight == 1
recentActivityBonus == 1
diversityThreshold == 3
diversityBonusHalves == 1

HasEntry(m, lang) == \E k \in 1..Len(m) : m[k].name = lang

\* The repos.forEach of lines 48-74: langMap after the first n repositories.
RECURSIVE ScoreScan(_, _)
ScoreScan(rs, n) ==
    IF n = 0 THEN <<>>
    ELSE LET m == ScoreScan(rs, n - 1)
             repo == rs[n]
             lang == repo.language
             isActiveIn2025 == repo.pushed_at >= year2025
             m1 == IF HasEntry(m, lang) THEN m
                   ELSE Append(m, [name |-> lang, weight |-> 0, repoCount |-> 0,
                                   recentCount |-> 0])
         IN  IF repo.fork THEN m
             ELSE IF lang = "" THEN m
             ELSE [k \in 1..Len(m1) |->
                     IF m1[k].name = lang
                     THEN [m1[k] EXCEPT
                             !.repoCount = @ + 1,
                             !.recentCount = @ + (IF isActiveIn2025 THEN 1 ELSE 0),
                             !.weight = @ + 2 * (baseWeight +
                                 (IF isActiveIn2025 THEN recentActivityBonus ELSE 0))]
                     ELSE m1[k]]

\* The langMap.forEach of lines 76-81.
DiversityPass(m) ==
    [k \in 1..Len(m) |->
        IF m[k].repoCount >= diversityThreshold
        THEN [m[k] EXCEPT !.weight =
                 @ + (m[k].repoCount - diversityThreshold) * diversityBonusHalves]
        ELSE m[k]]

calculateLanguageScores(rs) == DiversityPass(ScoreScan(rs, Len(rs)))

\* slice(0, n) of an array, n >= 0.
Slice0(arr, n) == SubSeq(arr, 1, Min(n, Len(arr)))

getTopLanguages(m, n) ==
    Slice0(SortDesc(m, [k \in 1..Len(m) |-> m[k].weight]), n)

---------------------------------------------------------------------------
(* githubService.ts, fetchUserStory C: the embedded calculateRepoScore, the *)
(* repos.forEach, topLanguages and topRepo.                                 *)
(*                                                                         *)
(* Scores are held in thirtieths (score 450 stands for 15), so that        *)
(* daysSincePush / 15 and watchers * 0.5 are integers.  Star and fork      *)
(* counts are of the form 10^k - 1, where log10(count + 1) = k.            *)

RECURSIVE Log10(_)
Log10(x) == IF x <= 1 THEN 0 ELSE 1 + Log10(x \div 10)

EmbeddedRepoScore(repo, at) ==
    LET stars == Min(Log10(repo.stargazers_count + 1) * 300, 900)
        forks == Min(Log10(repo.forks_count + 1) * 150, 450)
        daysSincePush == Max(0, at - repo.pushed_at)
        recency == IF repo.pushed_at >= year2025
                   THEN Max(0, 750 - 2 * daysSincePush) ELSE 0
        original == IF ~repo.fork THEN 450 ELSE 0
        described == IF repo.description > 10 THEN 150 ELSE 0
        tagged == IF repo.topics > 0 THEN 150 ELSE 0
        hasLanguage == IF repo.language # "" THEN 90 ELSE 0
        watchers == Min(repo.watchers_count * 15, 150)
        archivedPenalty == IF repo.archived THEN 600 ELSE 0
    IN  stars + forks + recency + original + described + tagged + hasLanguage
          + watchers - archivedPenalty

\* `let bestScore = -1`, in thirtieths.
InitialBestScore == -30

\* The repos.forEach of lines 272-285: <<totalStars, langMap, bestRepo,
\* bestScore>> after the first n repositories.
RECURSIVE RepoScan(_, _, _)
RepoScan(rs, at, n) ==
    IF n = 0 THEN [totalStars |-> 0, langMap |-> <<>>, bestRepo |-> 0,
                   bestScore |-> InitialBestScore]
    ELSE LET prev == RepoScan(rs, at, n - 1)
             repo == rs[n]
             lang == repo.language
             m == prev.langMap
             repoScore == EmbeddedRepoScore(repo, at)
         IN  [ totalStars |-> prev.totalStars + repo.stargazers_count,
               langMap |->
                   IF lang = "" THEN m
                   ELSE IF HasEntry(m, lang)
                   THEN [k \in 1..Len(m) |->
                           IF m[k].name = lang THEN [m[k] EXCEPT !.count = @ + 1]
                           ELSE m[k]]
                   ELSE Append(m, [name |-> lang, count |-> 1]),
               bestRepo |-> IF repoScore > prev.bestScore THEN n ELSE prev.bestRepo,
               bestScore |-> IF repoScore > prev.bestScore THEN repoScore
                             ELSE prev.bestScore ]

langColors(name) ==
    CASE name = "TypeScript" -> "#3178C6"
      [] name = "Go" -> "#00ADD8"
      [] name = "Python" -> "#3572A5"
      [] name = "Rust" -> "#dea584"
      [] OTHER -> "#A3A3A3"

\* Math.round(count / total * 100).
Percentage(count, total) ==
    IF total > 0 THEN (200 * count + total) \div (2 * total) ELSE 0

\* Lines 288-296: Object.entries(langMap) (the keys are language names, kept in
\* insertion order), sorted by count, the first three mapped to Language.
ServiceTopLanguages(m, total) ==
    LET top == Slice0(SortDesc(m, [k \in 1..Len(m) |-> m[k].count]), 3)
    IN  [k \in 1..Len(top) |->
            [ name |-> top[k].name, count |-> top[k].count,
              percentage |-> Percentage(top[k].count, total),
              color |-> langColors(top[k].name) ]]

Polyglot == [name |-> "Polyglot", count |-> 1, percentage |-> 100, color |-> "#FFFFFF"]

NoPublicRepos ==
    [ name |-> "No Public Repos", description |-> "Start coding to write history.",
      stars |-> 0, language |-> "N/A", topics |-> 0, url |-> "" ]

\* Lines 302-316.
TopRepoOf(rs, bestIndex) ==
    IF bestIndex # 0
    THEN LET best == rs[bestIndex] IN
         [ name |-> best.name,
           description |-> IF best.description # 0 THEN "given"
                           ELSE "No description provided.",
           stars |-> best.stargazers_count,
           language |-> IF best.language # "" THEN best.language ELSE "Unknown",
           topics |-> best.topics,
           url |-> best.html_url ]
    ELSE NoPublicRepos

---------------------------------------------------------------------------
(* The repository specifications: the collection is drawn, then either the *)
(* module's functions or fetchUserStory's section C run over it.           *)

MaxRepos == 4
MaxScoredRepos == 2

\* Collections for the language claims: four languages, pushed before, within
\* and after the target year, a fork, a repository without a language.
LanguageKinds ==
    { Repo("TypeScript", FALSE, -30, 0, 0, FALSE),
      Repo("TypeScript", FALSE, 200, 0, 0, FALSE),
      Repo("TypeScript", FALSE, 400, 0, 0, FALSE),
      Repo("TypeScript", TRUE, 200, 0, 0, FALSE),
      Repo("Go", FALSE, -30, 0, 0, FALSE),
      Repo("Go", FALSE, 200, 0, 0, FALSE),
      Repo("Python", FALSE, -30, 0, 0, FALSE),
      Repo("Rust", FALSE, 200, 0, 0, FALSE),
      Repo("", FALSE, 200, 0, 0, FALSE) }

\* Five repositories of one language (diversity bonus 1.0).
FiveOfOneLanguage == [i \in 1..5 |-> Repo("TypeScript", FALSE, -30, 0, 0, FALSE)]

\* Collections for the top-repository claims: every combination of language,
\* fork, archived, 0 or 9 stars, pushed before 2025 or on day 290.
ScoredKinds ==
    { Repo(lang, isFork, pushed, stars, 0, isArchived) :
        lang \in {"", "Go"}, isFork \in BOOLEAN, pushed \in {-30, 290},
        stars \in {0, 9}, isArchived \in BOOLEAN }

SeqsUpTo(S, n) == UNION { [1..k -> S] : k \in 0..n }

RepoInit(collections, times) ==
    /\ \E kinds \in collections : repos = Named(kinds)
    /\ now \in times
    /\ langMap = <<>>
    /\ topN = 0
    /\ topLanguages = <<>>
    /\ totalStars = 0
    /\ bestRepo = 0
    /\ bestScore = InitialBestScore
    /\ topRepo = PendingRepo
    /\ pc = "repos"
    /\ impl = "none"
    /\ productivity = NoProductivity
    /\ totalCommits = 0
    /\ weekdayStats = <<0, 0, 0, 0, 0, 0, 0>>
    /\ contribData = <<>>
    /\ westOfUTC = FALSE
    /\ yearData = <<>>
    /\ dayIndex = 1
    /\ currentStreak = 0
    /\ maxStreak = 0
    /\ velocityData = <<>>
    /\ busiestDay = ""
    /\ ArchIdle
    /\ ProdIdle
    /\ ExtIdle

otherVars == <<archVars, totalCommits, weekdayStats, productivity, prodVars,
               contribData, westOfUTC, yearData, dayIndex, currentStreak, maxStreak,
               velocityData, busiestDay, extVars>>

\* calculateLanguageScores(repos).
ScoreLanguages ==
    /\ pc = "repos"
    /\ impl = "none"
    /\ langMap' = calculateLanguageScores(repos)
    /\ impl' = "module"
    /\ pc' = "scored"
    /\ UNCHANGED <<repos, topN, topLanguages, now, totalStars, bestRepo, bestScore,
                   topRepo, otherVars>>

\* getTopLanguages(langMap, n); n = 3 is the default.
TopLanguages(n) ==
    /\ pc = "scored"
    /\ impl = "module"
    /\ topN' = n
    /\ topLanguages' = getTopLanguages(langMap, n)
    /\ pc' = "selected"
    /\ UNCHANGED <<repos, langMap, now, totalStars, bestRepo, bestScore, topRepo, impl,
                   otherVars>>

\* fetchUserStory lines 271-286: the loop over the repositories.
ScanRepos ==
    /\ pc = "repos"
    /\ impl = "none"
    /\ LET r == RepoScan(repos, now, Len(repos))
       IN  /\ totalStars' = r.totalStars
           /\ langMap' = r.langMap
           /\ bestRepo' = r.bestRepo
           /\ bestScore' = r.bestScore
    /\ impl' = "service"
    /\ pc' = "scanned"
    /\ UNCHANGED <<repos, topN, topLanguages, now, topRepo, otherVars>>

\* fetchUserStory lines 288-296: the three top languages.
SelectTopLanguages ==
    /\ pc = "scanned"
    /\ topN' = 3
    /\ topLanguages' = ServiceTopLanguages(langMap, Len(repos))
    /\ pc' = "selected"
    /\ UNCHANGED <<repos, langMap, now, totalStars, bestRepo, bestScore, topRepo, impl,
                   otherVars>>

\* fetchUserStory lines 298-316: the placeholder language and the top repository.
BuildTopRepo ==
    /\ pc = "selected"
    /\ impl = "service"
    /\ topLanguages' = IF Len(topLanguages) = 0 THEN <<Polyglot>> ELSE topLanguages
    /\ topRepo' = TopRepoOf(repos, bestRepo)
    /\ pc' = "done"
    /\ UNCHANGED <<repos, langMap, topN, now, totalStars, bestRepo, bestScore, impl,
                   otherVars>>

RepoNext ==
    \/ ScoreLanguages
    \/ \E n \in 1..3 : TopLanguages(n)
    \/ ScanRepos
    \/ SelectTopLanguages
    \/ BuildTopRepo

LanguageInit == RepoInit(SeqsUpTo(LanguageKinds, MaxRepos) \cup {FiveOfOneLanguage}, {320})

TopRepoInit == RepoInit(SeqsUpTo(ScoredKinds, MaxScoredRepos), {320, 680})

SpecLanguages == LanguageInit /\ [][RepoNext]_vars

SpecTopRepo == TopRepoInit /\ [][RepoNext]_vars

---------------------------------------------------------------------------
(* The language claims *)

Positions == 1..Len(repos)

\* The repositories the module's scan counts for language lang: not forks.
Counted(lang) == { i \in Positions : ~repos[i].fork /\ repos[i].language = lang }

\* The repositories fetchUserStory counts for language lang: forks too.
CountedByService(lang) == { i \in Positions : repos[i].language = lang }

CountedFor(lang) == IF impl = "module" THEN Counted(lang) ELSE CountedByService(lang)

Languages == { repos[i].language : i \in Positions } \ {""}

EntriesOf(m) == { m[k] : k \in 1..Len(m) }

\* langMap holds, for each language with n > 0 counted repositories of which
\* r are recent, exactly one entry, of weight n + r + 0.5 * max(0, n - 3)
\* (in halves), repoCount n and recentCount r, and no other entry.
ScoresMatch(Recent(_)) ==
    /\ \A k \in 1..Len(langMap) :
          /\ langMap[k].name \in Languages
          /\ Counted(langMap[k].name) # {}
          /\ \A j \in 1..Len(langMap) : langMap[j].name = langMap[k].name => j = k
    /\ \A lang \in Languages :
          LET n == Cardinality(Counted(lang))
              r == Cardinality({ i \in Counted(lang) : Recent(repos[i].pushed_at) })
          IN  n > 0 =>
                [ name |-> lang, weight |-> 2 * n + 2 * r + Max(0, n - 3),
                  repoCount |-> n, recentCount |-> r ] \in EntriesOf(langMap)

Scored == impl = "module" /\ pc = "scored"

\* C8: calculateLanguageScores gives each language weight
\* n + r + 0.5 * max(0, n - 3), repoCount n and recentCount r, n counting the
\* repositories that are not forks and have that primary language, r those of
\* them last pushed within the target year; forks and repositories without a
\* language count for nothing, a language with n = 0 has no entry.
C8_LanguageScores == Scored => ScoresMatch(WithinTargetYear)

SinceYearStart(t) == t >= year2025

\* The same statement with r counting the repositories last pushed on or after
\* the first day of the target year.
LanguageScoresSinceYearStart == Scored => ScoresMatch(SinceYearStart)

Selected == pc = "selected"

WeightOf(e) == IF impl = "module" THEN e.weight ELSE e.count

\* The position in the collection at which language lang was first sighted.
FirstSighting(lang) ==
    CHOOSE i \in CountedFor(lang) : \A j \in CountedFor(lang) : i <= j

SightedLanguages == { lang \in Languages : CountedFor(lang) # {} }

---------------------------------------------------------------------------
(* The top-repository claim *)

ScoreAt(i) == EmbeddedRepoScore(repos[i], now)

\* The first position, in input order, holding the maximum score.
FirstBest ==
    CHOOSE i \in Positions :
        /\ \A j \in Positions : ScoreAt(j) <= ScoreAt(i)
        /\ \A j \in 1..(i - 1) : ScoreAt(j) < ScoreAt(i)

Reported == pc = "done"

\* C10: for a non-empty collection the top repository is the first record in
\* input order whose score is the maximum, negative scores included; the "No
\* Public Repos" placeholder stands for the empty collection only.
C10_TopRepository ==
    Reported =>
        IF repos = <<>> THEN topRepo = NoPublicRepos
        ELSE topRepo.name = repos[FirstBest].name

\* The same statement for collections holding a repository that scores more
\* than -1.
TopRepositoryAboveInitialBest ==
    (Reported /\ \E i \in Positions : ScoreAt(i) > InitialBestScore) =>
        topRepo.name = repos[FirstBest].name

---------------------------------------------------------------------------
(* The repository scorers: calculateRepoScore of scoringAlgorithms.ts and   *)
(* the function of the same name embedded in fetchUserStory.                *)
(*                                                                         *)
(* Scores are in thirtieths, as above.  Star, fork and open-issue counts    *)
(* are of the form 10^k - 1 and sizes of the form 10^k, where the           *)
(* logarithms are integers; the sums are then exact in the code's double    *)
(* arithmetic as well.                                                     *)

CoreIdle ==
    /\ ArchIdle
    /\ ProdIdle
    /\ AggIdle
    /\ LangIdle
    /\ totalCommits = 0
    /\ weekdayStats = <<0, 0, 0, 0, 0, 0, 0>>
    /\ productivity = NoProductivity
    /\ impl = "none"

\* SCORING_CONFIG.repo.recency.maxPoints
recencyMaxPoints == 0

\* A repository record with the three further fields the module's scorer reads.
Measured(repo, size, issues, created) ==
    [f \in DOMAIN repo \cup {"size", "open_issues_count", "created_at"} |->
        CASE f = "size" -> size
          [] f = "open_issues_count" -> issues
          [] f = "created_at" -> created
          [] OTHER -> repo[f]]

\* The module's scorer with the archived penalty clamped at a score of zero.
ModuleRepoScoreClamped(repo, at) ==
    LET stars == Min(Log10(repo.stargazers_count + 1) * 360, 1050)
        forks == Min(Log10(repo.forks_count + 1) * 180, 600)
        original == IF ~repo.fork THEN 600 ELSE 0
        described == IF repo.description > 10 THEN 60 ELSE 0
        tagged == IF repo.topics > 0 THEN 60 ELSE 0
        hasLanguage == IF repo.language # "" THEN 90 ELSE 0
        watchers == Min(repo.watchers_count * 15, 150)
        size == IF repo.size > 0 THEN Min(Log10(repo.size) * 90, 450) ELSE 0
        openIssues == IF repo.open_issues_count > 0
                      THEN Min(Log10(repo.open_issues_count + 1) * 120, 240) ELSE 0
        createdIn2025 == IF repo.created_at >= year2025 THEN 300 ELSE 0
        unarchived == stars + forks + original + described + tagged + hasLanguage
                        + watchers + size + openIssues + createdIn2025
    IN  IF repo.archived THEN Max(0, unarchived - 600) ELSE unarchived

\* calculateRepoScore(repo) of scoringAlgorithms.ts, called at time `at`:
\* the function reads the clock (line 95) and makes no use of it.
ModuleRepoScore(repo, at) ==
    LET stars == Min(Log10(repo.stargazers_count + 1) * 360, 1050)
        forks == Min(Log10(repo.forks_count + 1) * 180, 600)
        recency == IF repo.pushed_at >= year2025 /\ recencyMaxPoints > 0
                   THEN recencyMaxPoints * 30 ELSE 0
        original == IF ~repo.fork THEN 600 ELSE 0
        described == IF repo.description > 10 THEN 60 ELSE 0
        tagged == IF repo.topics > 0 THEN 60 ELSE 0
        hasLanguage == IF repo.language # "" THEN 90 ELSE 0
        watchers == Min(repo.watchers_count * 15, 150)
        archivedPenalty == IF repo.archived THEN -600 ELSE 0
        size == IF repo.size > 0 THEN Min(Log10(repo.size) * 90, 450) ELSE 0
        openIssues == IF repo.open_issues_count > 0
                      THEN Min(Log10(repo.open_issues_count + 1) * 120, 240) ELSE 0
        createdIn2025 == IF repo.created_at >= year2025 THEN 300 ELSE 0
    IN  stars + forks + recency + original + described + tagged + hasLanguage
          + watchers + archivedPenalty + size + openIssues + createdIn2025

MaxCalls == 4
MaxTicks == 1

\* The records scored: forks and original work, last pushed before 2025 or on
\* day 290, no stars or 999, and either an empty, old repository or one of
\* size 1000 with 9 open issues created in 2025 (watchers 4, a description of
\* 20 characters, one topic).
ScoredRecords ==
    { Measured([Repo("Go", isFork, pushed, stars, 9, isArchived)
                    EXCEPT !.name = "repo-1", !.description = m.description,
                           !.topics = m.topics, !.watchers_count = m.watchers],
               m.size, m.issues, m.created) :
        isFork \in BOOLEAN, pushed \in {-30, 290}, stars \in {0, 999},
        isArchived \in BOOLEAN,
        m \in { [size |-> 0, issues |-> 0, created |-> -400, description |-> 0,
                 topics |-> 0, watchers |-> 0],
                [size |-> 1000, issues |-> 9, created |-> 100, description |-> 20,
                 topics |-> 1, watchers |-> 4] } }

ScoreInit ==
    /\ record \in ScoredRecords
    /\ clock = 320
    /\ calls = <<>>
    /\ CoreIdle
    /\ FetchIdle
    /\ ProxyIdle

\* A call of the exported calculateRepoScore on the record.
ScoreWithModule ==
    /\ Len(calls) < MaxCalls
    /\ calls' = Append(calls, [fn |-> "module", repo |-> record, at |-> clock,
                               score |-> ModuleRepoScore(record, clock)])
    /\ UNCHANGED <<record, clock, coreVars, fetchVars, proxyVars>>

\* A call of fetchUserStory's calculateRepoScore on the record (line 280).
ScoreWithEmbedded ==
    /\ Len(calls) < MaxCalls
    /\ calls' = Append(calls, [fn |-> "embedded", repo |-> record, at |-> clock,
                               score |-> EmbeddedRepoScore(record, clock)])
    /\ UNCHANGED <<record, clock, coreVars, fetchVars, proxyVars>>

\* The repository is archived or unarchived between two calls.
SetArchived(flag) ==
    /\ record.archived # flag
    /\ record' = [record EXCEPT !.archived = flag]
    /\ UNCHANGED <<clock, calls, coreVars, fetchVars, proxyVars>>

\* Fifteen days pass.
AdvanceClock ==
    /\ clock < 320 + 15 * MaxTicks
    /\ clock' = clock + 15
    /\ UNCHANGED <<record, calls, coreVars, fetchVars, proxyVars>>

ScoreNext ==
    \/ ScoreWithModule
    \/ ScoreWithEmbedded
    \/ \E flag \in BOOLEAN : SetArchived(flag)
    \/ AdvanceClock

SpecRepoScore == ScoreInit /\ [][ScoreNext]_vars

---------------------------------------------------------------------------
(* The scorer claims *)

Calls == 1..Len(calls)

\* Calls i and j were made by the same function at the same time on records
\* that differ in the archived flag only, i on the archived one.
ArchivedPair(i, j) ==
    /\ calls[i].fn = calls[j].fn
    /\ calls[i].at = calls[j].at
    /\ calls[i].repo.archived
    /\ ~calls[j].repo.archived
    /\ calls[i].repo = [calls[j].repo EXCEPT !.archived = TRUE]

SameCall(i, j) == calls[i].fn = calls[j].fn /\ calls[i].repo = calls[j].repo

\* C12: two calls of a repository scorer on an identical record return an
\* identical score, whenever they are made and whatever calls are made in
\* between; this for the module's scorer and for the embedded one.
C12_ScorerDeterministic ==
    \A i, j \in Calls : SameCall(i, j) => calls[i].score = calls[j].score

\* The same statement for the scorer of scoringAlgorithms.ts alone.
ModuleScorerDeterministic ==
    \A i, j \in Calls :
        (SameCall(i, j) /\ calls[i].fn = "module") => calls[i].score = calls[j].score

\* The embedded scorer returns identical scores for an identical record at
\* one and the same time.
EmbeddedScorerDependsOnClockOnly ==
    \A i, j \in Calls :
        (SameCall(i, j) /\ calls[i].at = calls[j].at) => calls[i].score = calls[j].score

---------------------------------------------------------------------------
(* githubService.ts, fetchUserStory lines 83-148 and 353-356: the seven     *)
(* fetches, what each does with its response, and the outcome of the call.  *)
(*                                                                         *)
(* A response is "ok" (status 200), "notFound" (404), "rateLimited" (403),  *)
(* "serverError" (500), or "rejected": the fetch or the reading of its body *)
(* threw (transport failure).                                              *)

ResponseKinds == {"ok", "notFound", "rateLimited", "serverError", "rejected"}

Usernames == {"demo", "Demo", "octocat"}

toLowerCase(name) == IF name = "Demo" THEN "demo" ELSE name

\* The input obtained from a fetch that throws on no status: the parsed body
\* of an ok response, and otherwise the value the variable was declared with
\* ([] for repos and events, {} for contribData, 0 for the counts).
ValueOf(res) == IF res = "ok" THEN "fetched" ELSE "empty"

FetchInit ==
    /\ username \in Usernames
    /\ step = 0
    /\ responses = <<>>
    /\ inputs = NothingFetched
    /\ report = NothingFetched
    /\ outcome = "pending"
    /\ thrown = ""
    /\ CoreIdle
    /\ ScoreIdle
    /\ ProxyIdle

\* Lines 84-88: the demo user gets the mock report; otherwise the try block
\* is entered.
EnterFetchUserStory ==
    /\ step = 0
    /\ IF toLowerCase(username) = "demo"
       THEN /\ step' = 9
            /\ outcome' = "report"
            /\ report' = [f \in InputNames |-> "mock"]
       ELSE /\ step' = 1
            /\ UNCHANGED <<outcome, report>>
    /\ UNCHANGED <<username, responses, inputs, thrown, coreVars, scoreVars, proxyVars>>

\* The catch block of lines 353-356 rethrows: the promise is rejected.
Throw(message) ==
    /\ outcome' = "error"
    /\ thrown' = message
    /\ step' = 9
    /\ UNCHANGED <<inputs, report>>

\* Lines 90-102: the user.
FetchUser(res) ==
    /\ step = 1
    /\ responses' = Append(responses, res)
    /\ CASE res = "rejected" -> Throw("fetch failed")
         [] res = "notFound" -> Throw("User not found.")
         [] res = "rateLimited" -> Throw("API Rate Limit Exceeded.")
         [] res = "serverError" -> Throw("Failed to fetch user data.")
         [] OTHER -> /\ inputs' = [inputs EXCEPT !.user = "fetched"]
                     /\ step' = 2
                     /\ UNCHANGED <<report, outcome, thrown>>
    /\ UNCHANGED <<username, coreVars, scoreVars, proxyVars>>

\* The fetches of lines 105-148 share one shape: the body of an ok response
\* is taken, any other status leaves the declared value, a rejection throws.
FetchOrDefault(k, res) ==
    /\ step = k
    /\ responses' = Append(responses, res)
    /\ IF res = "rejected"
       THEN Throw("fetch failed")
       ELSE /\ inputs' = [inputs EXCEPT ![Fetches[k]] = ValueOf(res)]
            /\ step' = k + 1
            /\ UNCHANGED <<report, outcome, thrown>>
    /\ UNCHANGED <<username, coreVars, scoreVars, proxyVars>>

\* Lines 105-112.
FetchRepos(res) == FetchOrDefault(2, res)

\* Lines 115-119.
FetchContributions(res) == FetchOrDefault(3, res)

\* Lines 122-123.
FetchEvents(res) == FetchOrDefault(4, res)

\* Lines 127-132.
SearchPrs(res) == FetchOrDefault(5, res)

\* Lines 135-140.
SearchIssues(res) == FetchOrDefault(6, res)

\* Lines 143-148.
SearchReviews(res) == FetchOrDefault(7, res)

\* Lines 150-351: the report is computed from the inputs and returned.
ProcessData ==
    /\ step = 8
    /\ report' = inputs
    /\ outcome' = "report"
    /\ step' = 9
    /\ UNCHANGED <<username, responses, inputs, thrown, coreVars, scoreVars, proxyVars>>

FetchNext ==
    \/ EnterFetchUserStory
    \/ \E res \in ResponseKinds :
          \/ FetchUser(res)
          \/ FetchRepos(res)
          \/ FetchContributions(res)
          \/ FetchEvents(res)
          \/ SearchPrs(res)
          \/ SearchIssues(res)
          \/ SearchReviews(res)
    \/ ProcessData

SpecFetch == FetchInit /\ [][FetchNext]_vars

---------------------------------------------------------------------------
(* The fetch claim *)

Failed(k) == responses[k] # "ok"

Returned == step = 9 /\ toLowerCase(username) # "demo"

\* C13: when any of the seven fetches fails (a status that is not ok, or a
\* rejection), fetchUserStory ends in a caller-visible error and returns no
\* report; a report is returned only when every input was obtained, never
\* computed from an empty list or a zero that stands for a failed fetch.
C13_FailedFetchIsAnError ==
    /\ (Returned /\ \E k \in 1..Len(responses) : Failed(k)) => outcome = "error"
    /\ (Returned /\ outcome = "report") =>
          \A f \in InputNames : report[f] = "fetched"

\* A failure of the user fetch, and a rejection of any fetch, is an error.
UserFailureIsAnError ==
    (Returned /\ (Failed(1) \/ \E k \in 1..Len(responses) : responses[k] = "rejected"))
        => (outcome = "error" /\ report = NothingFetched)

---------------------------------------------------------------------------
(* githubService.ts lines 358-497: the proxy.  Module state: GITHUB_TOKENS, *)
(* tokenIndex, cache.  A GET runs to its `await fetch` in one step and      *)
(* resumes when the upstream response arrives; other requests, clean-ups    *)
(* and the passing of time interleave in between.                          *)
(*                                                                         *)
(* Time is in units of 150 s (half the time to live).  A header value is a string; NoHeader is the null    *)
(* that headers.get returns for a request without the header.  The payload  *)
(* of an upstream response is held as the request that obtained it: its     *)
(* endpoint, its own Authorization header, the Authorization header sent    *)
(* upstream, and the status.                                               *)

\* 5 * 60 * 1000 ms
CACHE_TTL_MS == 2

MaxRequests == 3
MaxTime == 3
MaxConfigured == 2

NoHeader == "null"
NoEndpoint == "null"

\* The values of a request's Authorization header: none, an empty value, a
\* user's credential.
AuthHeaders == {NoHeader, "", "Bearer user"}

\* GITHUB_TOKENS holds the tokens of at most four environment variables;
\* BearerOf[i] is `Bearer ${GITHUB_TOKENS[i - 1]}`.
MaxTokens == 4
BearerOf == <<"Bearer ghp_1", "Bearer ghp_2", "Bearer ghp_3", "Bearer ghp_4">>

\* The truth value of a header value in a condition: null and "" are falsy.
Truthy(header) == header # NoHeader /\ header # ""

\* getNextToken without the wrap-around.
getNextTokenUnwrapped(count, index) ==
    IF count = 0 THEN [token |-> -1, tokenIndex |-> index]
    ELSE [token |-> index, tokenIndex |-> index + 1]

\* Lines 376-381: the index of the token returned (-1 for undefined) and the
\* tokenIndex left behind.
getNextToken(count, index) ==
    IF count = 0 THEN [token |-> -1, tokenIndex |-> index]
    ELSE [token |-> index, tokenIndex |-> (index + 1) % count]

\* Line 414.
CacheKey(endpoint, userAuthHeader) ==
    <<endpoint, IF Truthy(userAuthHeader) THEN "auth" ELSE "public">>

\* Lines 417-419: whether the request is answered from the entry.
CacheHit(userAuthHeader, cached, at) ==
    /\ ~Truthy(userAuthHeader)
    /\ cached.present
    /\ at - cached.timestamp < CACHE_TTL_MS

\* The condition of line 447 without its second conjunct.
ShouldCacheAnyOk(ok, userAuthHeader) == ok

\* Line 447.
ShouldCache(ok, userAuthHeader) == ok /\ ~Truthy(userAuthHeader)

\* A response returned to the client: the request it answers (endpoint,
\* Authorization header, the header sent upstream), the status, the X-Cache
\* header, the body and, for a response taken from the cache, the age of the
\* entry (Date.now() - cached.timestamp) at that time.
Response(endpoint, auth, sent, status, xcache, data, age) ==
    [ endpoint |-> endpoint, auth |-> auth, sent |-> sent, status |-> status,
      xcache |-> xcache, data |-> data, age |-> age ]

\* Between zero and MaxConfigured of the four token variables are set.
ProxyInit ==
    /\ tokenCount \in 0..Min(MaxConfigured, MaxTokens)
    /\ tokenIndex = 0
    /\ cache = [key \in CacheKeys |-> NoEntry]
    /\ dateNow = 0
    /\ pending = EmptyBag
    /\ requestCount = 0
    /\ lastResponse = NoResponse
    /\ taken = <<>>
    /\ CoreIdle
    /\ ScoreIdle
    /\ FetchIdle

\* GET, lines 403-443: up to the await of the upstream fetch.
GetRequest(endpoint, userAuthHeader) ==
    /\ requestCount < MaxRequests
    /\ requestCount' = requestCount + 1
    /\ LET cacheKey == CacheKey(endpoint, userAuthHeader)
       IN  IF endpoint = NoEndpoint
           THEN /\ lastResponse' =
                        Response(endpoint, userAuthHeader, NoHeader, 400, "", NoData, 0)
                /\ UNCHANGED <<tokenIndex, pending, taken>>
           ELSE IF CacheHit(userAuthHeader, cache[cacheKey], dateNow)
           THEN /\ lastResponse' =
                        Response(endpoint, userAuthHeader, NoHeader,
                                 cache[cacheKey].status, "HIT", cache[cacheKey].data,
                                 dateNow - cache[cacheKey].timestamp)
                /\ UNCHANGED <<tokenIndex, pending, taken>>
           ELSE IF Truthy(userAuthHeader)
           THEN /\ pending' = pending (+)
                        SetToBag({[endpoint |-> endpoint, auth |-> userAuthHeader,
                                   sent |-> userAuthHeader]})
                /\ UNCHANGED <<tokenIndex, lastResponse, taken>>
           ELSE LET next == getNextToken(tokenCount, tokenIndex)
                    serverToken == next.token
                    authorization == IF serverToken \in 0..(tokenCount - 1)
                                     THEN BearerOf[serverToken + 1] ELSE NoHeader
                IN  /\ tokenIndex' = next.tokenIndex
                    /\ pending' = pending (+)
                          SetToBag({[endpoint |-> endpoint, auth |-> userAuthHeader,
                                     sent |-> authorization]})
                    /\ taken' = IF tokenCount = 0 THEN taken
                                ELSE Append(taken, [token |-> serverToken,
                                                    sent |-> authorization])
                    /\ UNCHANGED lastResponse
    /\ UNCHANGED <<tokenCount, cache, dateNow, coreVars, scoreVars, fetchVars>>

\* GET, lines 443-467: the upstream response has arrived ("ok", "notOk"), or
\* the fetch or the parsing of the body threw ("rejected").
GetResponse(req, upstream) ==
    /\ BagIn(req, pending)
    /\ pending' = pending (-) SetToBag({req})
    /\ IF upstream = "rejected"
       THEN /\ lastResponse' =
                    Response(req.endpoint, req.auth, req.sent, 500, "", NoData, 0)
            /\ UNCHANGED cache
       ELSE LET status == IF upstream = "ok" THEN 200 ELSE 404
                data == [endpoint |-> req.endpoint, auth |-> req.auth,
                         authorization |-> req.sent, status |-> status]
            IN  /\ cache' =
                      IF ShouldCache(upstream = "ok", req.auth)
                      THEN [cache EXCEPT ![CacheKey(req.endpoint, req.auth)] =
                              [present |-> TRUE, data |-> data, status |-> status,
                               timestamp |-> dateNow]]
                      ELSE cache
                /\ lastResponse' =
                      Response(req.endpoint, req.auth, req.sent, status, "MISS", data, 0)
    /\ UNCHANGED <<tokenCount, tokenIndex, dateNow, requestCount, taken, coreVars,
                   scoreVars, fetchVars>>

\* Lines 388-395, run by the interval timer of line 399.
cleanExpiredCache ==
    /\ cache' = [key \in CacheKeys |->
                    IF cache[key].present /\ dateNow - cache[key].timestamp > CACHE_TTL_MS
                    THEN NoEntry ELSE cache[key]]
    /\ UNCHANGED <<tokenCount, tokenIndex, dateNow, pending, requestCount, lastResponse,
                   taken, coreVars, scoreVars, fetchVars>>

\* 150 s pass.
Tick ==
    /\ dateNow < MaxTime
    /\ dateNow' = dateNow + 1
    /\ UNCHANGED <<tokenCount, tokenIndex, cache, pending, requestCount, lastResponse,
                   taken, coreVars, scoreVars, fetchVars>>

ProxyNext ==
    \/ \E endpoint \in Endpoints \cup {NoEndpoint}, auth \in AuthHeaders :
          GetRequest(endpoint, auth)
    \/ \E req \in BagToSet(pending), upstream \in {"ok", "notOk", "rejected"} :
          GetResponse(req, upstream)
    \/ cleanExpiredCache
    \/ Tick

SpecProxy == ProxyInit /\ [][ProxyNext]_vars

---------------------------------------------------------------------------
(* The proxy claims.  "Carries an Authorization header" is read in two      *)
(* ways: the header is present (HasHeader), or it is present with a value   *)
(* that is not empty (HasCredential).                                      *)

HasHeader(header) == header # NoHeader

HasCredential(header) == header # NoHeader /\ header # ""

\* The payload was obtained by a request that did not carry the header, for
\* this endpoint, from an ok upstream response.
PublicPayload(Carries(_), data, endpoint) ==
    /\ ~Carries(data.auth)
    /\ data.endpoint = endpoint
    /\ data.status = 200

CacheIsolation(Carries(_)) ==
    /\ lastResponse.xcache = "HIT" =>
          /\ ~Carries(lastResponse.auth)
          /\ lastResponse.age >= 0
          /\ lastResponse.age < CACHE_TTL_MS
          /\ lastResponse.status = 200
          /\ PublicPayload(Carries, lastResponse.data, lastResponse.endpoint)
    /\ \A key \in CacheKeys :
          cache[key].present =>
              /\ key[2] = "public"
              /\ PublicPayload(Carries, cache[key].data, key[1])

\* C14 as stated: an X-Cache: HIT response goes only to a request without an
\* Authorization header, and only from an entry stored less than 5 minutes
\* earlier by a request without the header, for the same endpoint, whose
\* upstream response was ok; the response of a request carrying the header
\* is never stored.
C14_CacheIsolation == CacheIsolation(HasHeader)

\* C14 as amended: the same with "carrying an Authorization header" meaning a
\* header whose value is not empty.
C14_CacheIsolationOfCredentials == CacheIsolation(HasCredential)

\* C14 witness: a HIT from an entry stored 150 s earlier, the last moment
\* modelled before the five minutes are over.
C14_HitBeforeExpiry ==
    /\ lastResponse.xcache = "HIT"
    /\ lastResponse.age = CACHE_TTL_MS - 1
    /\ lastResponse.auth = NoHeader

RoundRobin(Carries(_)) ==
    /\ tokenCount >= 1 => tokenIndex \in 0..(tokenCount - 1)
    /\ \A k \in 1..Len(taken) :
          /\ taken[k].token = (k - 1) % tokenCount
          /\ taken[k].sent = BearerOf[((k - 1) % tokenCount) + 1]
    /\ tokenCount >= 1 => tokenIndex = Len(taken) % tokenCount
    /\ \A req \in BagToSet(pending) :
          IF Carries(req.auth) THEN req.sent = req.auth
          ELSE IF tokenCount = 0 THEN req.sent = NoHeader
          ELSE \E k \in 1..Len(taken) : req.sent = taken[k].sent

\* A GET request was received in this step.
Received == requestCount' = requestCount + 1

\* The request received in this step took a server token.
TookToken == Len(taken') = Len(taken) + 1

\* The request received in this step carried the header, or was answered at
\* once (from the cache, or for want of an endpoint).
KeepsIndex(Carries(_)) ==
    \/ pending' = pending
    \/ \E req \in BagToSet(pending') :
          CopiesIn(req, pending') > CopiesIn(req, pending) /\ Carries(req.auth)

Rotation(Carries(_)) ==
    /\ (Received /\ KeepsIndex(Carries)) => (tokenIndex' = tokenIndex /\ taken' = taken)
    /\ (Received /\ ~KeepsIndex(Carries) /\ tokenCount >= 1) => TookToken
    /\ ~Received => (tokenIndex' = tokenIndex /\ taken' = taken)

\* C15 as stated: tokenIndex stays within 0..N-1; the k-th request that takes
\* a server token (a cache miss without an Authorization header) uses token
\* (k-1) mod N; a request that carries an Authorization header or is served
\* from the cache leaves tokenIndex unchanged, and the user's header is
\* forwarded; with N = 0 no Authorization header is sent.
C15_RoundRobin == [](RoundRobin(HasHeader)) /\ [][Rotation(HasHeader)]_vars

\* C15 as amended: the same with "carrying an Authorization header" meaning a
\* header whose value is not empty.
C15_RoundRobinOfCredentials ==
    [](RoundRobin(HasCredential)) /\ [][Rotation(HasCredential)]_vars

\* C15 witness: two tokens, three requests have taken one, the third the
\* first token again.
C15_Wrapped ==
    /\ tokenCount = 2
    /\ Len(taken) = 3
    /\ taken[3].token = 0
    /\ tokenIndex = 1

=============================================================================
